---------------------------- MODULE Spec2Model ----------------------------
(***************************************************************************)
(* A model of lib/io.js (Adblock Plus file I/O helpers): IO.lines,         *)
(* IO.readFromFile, IO.writeToFile, IO.copyFile, IO.renameFile,            *)
(* IO.removeFile and IO.statFile, over an abstract file system that plays  *)
(* the part of OS.File.                                                    *)
(*                                                                         *)
(* Strings are sequences of characters.  A character is one of the names   *)
(*   "a"    U+0061, one UTF-8 byte                                         *)
(*   "E"    U+00E9, two UTF-8 bytes                                        *)
(*   "CR"   U+000D      "LF"   U+000A                                      *)
(*   "SUR"  an unpaired surrogate (U+D800)                                 *)
(*   "BOM"  U+FEFF      "REP"  U+FFFD                                      *)
(*   "X"    a run of 16384 characters "x" (one element standing for the    *)
(*          whole run, so that BUFFER_SIZE keeps its value)                *)
(*   "Z"    a run of 40000 characters "z"                                   *)
(* File contents are sequences of bytes (0..255); a run of n equal bytes b *)
(* is the single element ByteRun(b, n).                                    *)
(*                                                                         *)
(* One action is one turn of the single-threaded scheduler: the            *)
(* synchronous body of a call, or the continuation that runs when a        *)
(* promise settles.                                                        *)
(***************************************************************************)
EXTENDS Integers, Sequences, FiniteSets, TLC

VARIABLES
  os,       \* Services.appinfo.OS
  fs,       \* the file system behind OS.File: path -> NoFile or an entry
  gen,      \* one IO.lines generator and the regexp object it holds
  rd,       \* the readFromFile tasks, by reader id
  wr,       \* the writeToFile tasks, by writer id
  ops,      \* the copyFile/renameFile/removeFile/statFile calls made so far
  toFile    \* the variable renameFile assigns without declaring it

vars == <<os, fs, gen, rd, wr, ops, toFile>>

-----------------------------------------------------------------------------
(* Bounds of the model *)

\* longest text handed to IO.lines / longest file content read back
MaxTextLen == 4
\* most lines in the sequence handed to writeToFile
MaxLines == 3
\* most copyFile/renameFile/removeFile/statFile calls in one behaviour
MaxCalls == 2

-----------------------------------------------------------------------------
(* Strings, UTF-8 *)

BUFFER_SIZE == 32768

NoError == "null"

Seqs(S, n) == UNION {[1..k -> S] : k \in 0..n}

RECURSIVE Concat(_)
Concat(ss) == IF ss = <<>> THEN <<>> ELSE Head(ss) \o Concat(Tail(ss))

\* String.prototype.length, in UTF-16 code units
CharLen(c) == IF c = "X" THEN 16384 ELSE IF c = "Z" THEN 40000 ELSE 1

RECURSIVE StrLen(_)
StrLen(s) == IF s = <<>> THEN 0 ELSE CharLen(Head(s)) + StrLen(Tail(s))

ByteRun(b, n) == b + 256 * n

\* TextEncoder.encode of one character: UTF-8, an unpaired surrogate becomes U+FFFD
EncodeChar(c) ==
  CASE c = "a"   -> <<97>>
    [] c = "E"   -> <<195, 169>>
    [] c = "CR"  -> <<13>>
    [] c = "LF"  -> <<10>>
    [] c = "SUR" -> <<239, 191, 189>>
    [] c = "REP" -> <<239, 191, 189>>
    [] c = "BOM" -> <<239, 187, 191>>
    [] c = "X"   -> <<ByteRun(120, 16384)>>
    [] c = "Z"   -> <<ByteRun(122, 40000)>>

RECURSIVE Encode(_)
Encode(s) == IF s = <<>> THEN <<>> ELSE EncodeChar(Head(s)) \o Encode(Tail(s))

IsPrefix(p, s) == Len(p) <= Len(s) /\ SubSeq(s, 1, Len(p)) = p

Drop(s, n) == SubSeq(s, n + 1, Len(s))

\* UTF-8 decoding of the bytes after the byte order mark; a byte that starts
\* no valid sequence decodes to U+FFFD
RECURSIVE DecodeFrom(_)
DecodeFrom(b) ==
  IF b = <<>> THEN <<>>
  ELSE IF IsPrefix(<<195, 169>>, b) THEN <<"E">> \o DecodeFrom(Drop(b, 2))
  ELSE IF IsPrefix(<<239, 191, 189>>, b) THEN <<"REP">> \o DecodeFrom(Drop(b, 3))
  ELSE IF IsPrefix(<<239, 187, 191>>, b) THEN <<"BOM">> \o DecodeFrom(Drop(b, 3))
  ELSE IF Head(b) = 97 THEN <<"a">> \o DecodeFrom(Tail(b))
  ELSE IF Head(b) = 13 THEN <<"CR">> \o DecodeFrom(Tail(b))
  ELSE IF Head(b) = 10 THEN <<"LF">> \o DecodeFrom(Tail(b))
  ELSE IF Head(b) = ByteRun(120, 16384) THEN <<"X">> \o DecodeFrom(Tail(b))
  ELSE IF Head(b) = ByteRun(122, 40000) THEN <<"Z">> \o DecodeFrom(Tail(b))
  ELSE <<"REP">> \o DecodeFrom(Tail(b))

\* the decoding OS.File.read does for {encoding: "utf-8"}: a leading byte
\* order mark is not part of the text
Decode(b) ==
  IF IsPrefix(<<239, 187, 191>>, b) THEN DecodeFrom(Drop(b, 3)) ELSE DecodeFrom(b)

\* IO.lineBreak
lineBreak == IF os = "WINNT" THEN <<"CR", "LF">> ELSE <<"LF">>

-----------------------------------------------------------------------------
(* IO.lines *)

\* a class that excludes the line feed alone: [^\n]
IsBreakLFOnly(c) == c = "LF"

\* the characters the class [^\r\n] excludes
IsBreak(c) == c \in {"CR", "LF"}

\* regexp.exec(text) for /([^\r\n])+/g with regexp.lastIndex = lastIndex:
\* the leftmost match at or after lastIndex, taken greedily
RegexpExec(text, lastIndex) ==
  LET starts == {i \in (lastIndex + 1)..Len(text) : ~IsBreak(text[i])}
  IN  IF starts = {}
      THEN [match |-> FALSE, str |-> <<>>, lastIndex |-> 0]
      ELSE LET s == CHOOSE i \in starts : \A j \in starts : i <= j
               stops == {j \in s..Len(text) : j = Len(text) \/ IsBreak(text[j + 1])}
               e == CHOOSE j \in stops : \A k \in stops : j <= k
           IN  [match |-> TRUE, str |-> SubSeq(text, s, e), lastIndex |-> e]

ScanAlphabet == {"a", "E", "CR", "LF"}

Texts == Seqs(ScanAlphabet, MaxTextLen)

NoRun == <<<<"none">>>>

GenIdle ==
  [pc |-> "idle", text |-> <<>>, lastIndex |-> 0, out |-> <<>>, prev |-> NoRun]

\* text is handed to IO.lines: a new generator with a new regexp object
LinesCall ==
  /\ gen.pc = "idle"
  /\ \E text \in Texts :
       gen' = [GenIdle EXCEPT !.pc = "run", !.text = text]
  /\ UNCHANGED <<os, fs, rd, wr, ops, toFile>>

\* one next() of the generator: one pass of the while loop
LinesNext ==
  /\ gen.pc = "run"
  /\ LET m == RegexpExec(gen.text, gen.lastIndex)
     IN  gen' = IF m.match
                THEN [gen EXCEPT !.lastIndex = m.lastIndex,
                                 !.out = Append(@, m.str)]
                ELSE [gen EXCEPT !.lastIndex = m.lastIndex, !.pc = "done"]
  /\ UNCHANGED <<os, fs, rd, wr, ops, toFile>>

\* IO.lines is called again on the same text
LinesAgain ==
  /\ gen.pc = "done"
  /\ gen.prev = NoRun
  /\ gen' = [gen EXCEPT !.pc = "run", !.lastIndex = 0, !.out = <<>>,
                        !.prev = gen.out]
  /\ UNCHANGED <<os, fs, rd, wr, ops, toFile>>


-----------------------------------------------------------------------------
(* The file system behind OS.File *)

Dirs == {"d"}
Leaves == {"p", "q"}

\* nsIFile descriptors
Files == [dir : Dirs, leaf : Leaves]

NoDesc == [dir |-> "", leaf |-> ""]

\* nsIFile.path
PathOf(f) == f.dir \o "/" \o f.leaf

\* a writer that opens the target itself
TmpPathIsTarget(path) == path

\* tmpPath = file.path + ".tmp"
TmpPath(path) == path \o ".tmp"

Paths == {PathOf(f) : f \in Files} \cup {TmpPath(PathOf(f)) : f \in Files}

NoFile == [exists |-> FALSE, isDir |-> FALSE, data |-> <<>>, mtime |-> 0]

FileOf(bytes, t) == [exists |-> TRUE, isDir |-> FALSE, data |-> bytes, mtime |-> t]

DirEntry == [exists |-> TRUE, isDir |-> TRUE, data |-> <<>>, mtime |-> 1]

\* what a target held before a write, and what an earlier write left in a temp file
OldFile == FileOf(<<97, 10>>, 1)
StaleFile == FileOf(<<97, 97, 97>>, 1)

EmptyFS == [p \in Paths |-> NoFile]

-----------------------------------------------------------------------------
(* IO.readFromFile *)

Readers == {1, 2}

NoID == ""

\* the argument of one listener.process call
LineArg(l) == [isNull |-> FALSE, line |-> l]
NullArg == [isNull |-> TRUE, line |-> <<>>]

RdIdle ==
  [pc |-> "idle", path |-> "", timeLineID |-> NoID, read |-> "none",
   text |-> <<>>, lastIndex |-> 0, delivered |-> <<>>, events |-> <<>>,
   threw |-> FALSE, cb |-> <<>>]

\* a reader that calls the hooks without looking at timeLineID
HookAlways(s, name) == [s EXCEPT !.events = Append(@, name)]

Hook(s, name) ==
  IF s.timeLineID # NoID THEN [s EXCEPT !.events = Append(@, name)] ELSE s

\* lines 111-115: asyncDone if a timeLineID was given, then callback(result)
ReadFinish(s, result) ==
  [Hook(s, "asyncDone") EXCEPT !.events = Append(@, "callback"),
                               !.cb = Append(@, result),
                               !.pc = "done"]

\* a reader that calls the callback in the catch block and again after it
ReadFailedTwice(s, e) ==
  [ReadFinish([s EXCEPT !.read = e], e) EXCEPT !.cb = Append(@, e)]

\* a reader that tells the listener the end of the stream after a failed read
ReadFailedSentinel(s, e) ==
  ReadFinish([s EXCEPT !.read = e, !.delivered = Append(@, NullArg),
                       !.events = Append(@, "process")], e)

\* lines 107-110: OS.File.read threw or its promise was rejected with e; the
\* task resumes in the catch block
ReadFailed(s, e) == ReadFinish([s EXCEPT !.read = e], e)

\* a reader that ends without the null call
ReadStepNoSentinel(s, throws) ==
  LET m == RegexpExec(s.text, s.lastIndex)
  IN  IF m.match
      THEN LET s1 == [s EXCEPT !.lastIndex = m.lastIndex,
                               !.delivered = Append(@, LineArg(m.str)),
                               !.events = Append(@, "process")]
           IN  IF throws THEN ReadFinish([s1 EXCEPT !.threw = TRUE], "EPROCESS")
                         ELSE [s1 EXCEPT !.pc = "deliver"]
      ELSE ReadFinish(s, NoError)

\* a reader that delivers every line and the null in one turn
RECURSIVE ReadStepNoYield(_, _)
ReadStepNoYield(s, throws) ==
  LET m == RegexpExec(s.text, s.lastIndex)
      s1 == [s EXCEPT !.lastIndex = m.lastIndex,
                      !.delivered = Append(@, IF m.match THEN LineArg(m.str) ELSE NullArg),
                      !.events = Append(@, "process")]
  IN  IF m.match THEN ReadStepNoYield(s1, throws)
      ELSE IF throws THEN ReadFinish([s1 EXCEPT !.threw = TRUE], "EPROCESS")
      ELSE ReadFinish(s1, NoError)

\* a reader that goes on to the next line after process threw
ReadStepCarriesOn(s, throws) ==
  LET m == RegexpExec(s.text, s.lastIndex)
  IN  IF m.match
      THEN [s EXCEPT !.lastIndex = m.lastIndex,
                     !.delivered = Append(@, LineArg(m.str)),
                     !.events = Append(@, "process"),
                     !.threw = @ \/ throws,
                     !.pc = "deliver"]
      ELSE LET s1 == [s EXCEPT !.lastIndex = m.lastIndex,
                               !.delivered = Append(@, NullArg),
                               !.events = Append(@, "process")]
           IN  IF throws THEN ReadFinish([s1 EXCEPT !.threw = TRUE], "EPROCESS")
                         ELSE ReadFinish(s1, NoError)

\* the task from the head of the for loop to its next yield or to its end:
\* the generator's next(), then process(line) and yield, or process(null)
\* after the last line; an exception thrown by process is caught (threw
\* records that the listener threw)
ReadStep(s, throws) ==
  LET m == RegexpExec(s.text, s.lastIndex)
  IN  IF m.match
      THEN LET s1 == [s EXCEPT !.lastIndex = m.lastIndex,
                               !.delivered = Append(@, LineArg(m.str)),
                               !.events = Append(@, "process")]
           IN  IF throws THEN ReadFinish([s1 EXCEPT !.threw = TRUE], "EPROCESS")
                         ELSE [s1 EXCEPT !.pc = "deliver"]
      ELSE LET s1 == [s EXCEPT !.lastIndex = m.lastIndex,
                               !.delivered = Append(@, NullArg),
                               !.events = Append(@, "process")]
           IN  IF throws THEN ReadFinish([s1 EXCEPT !.threw = TRUE], "EPROCESS")
                         ELSE ReadFinish(s1, NoError)

\* the call: Task.spawn runs the task up to the yield of OS.File.read
ReadFromFile(r) ==
  /\ rd[r].pc = "idle"
  /\ \E file \in Files, id \in {NoID, "id"}, threw \in BOOLEAN :
       LET s0 == Hook([RdIdle EXCEPT !.path = PathOf(file), !.timeLineID = id],
                      "asyncStart")
       IN  rd' = [rd EXCEPT ![r] = IF threw THEN ReadFailed(s0, "ETHROW")
                                   ELSE [s0 EXCEPT !.pc = "reading",
                                                   !.read = "pending"]]
  /\ UNCHANGED <<os, fs, gen, wr, ops, toFile>>

\* the promise of OS.File.read settles
ReadSettled(r) ==
  /\ rd[r].pc = "reading"
  /\ LET s == rd[r]
         e == fs[s.path]
     IN  \E ok \in BOOLEAN, throws \in BOOLEAN :
           rd' = [rd EXCEPT ![r] =
                    IF ~e.exists THEN ReadFailed(s, "ENOENT")
                    ELSE IF e.isDir \/ ~ok THEN ReadFailed(s, "EIO")
                    ELSE ReadStep(Hook([s EXCEPT !.text = Decode(e.data),
                                                 !.read = NoError],
                                       "asyncEnd"), throws)]
  /\ UNCHANGED <<os, fs, gen, wr, ops, toFile>>

\* the turn after yield Promise.resolve()
ReadResume(r) ==
  /\ rd[r].pc = "deliver"
  /\ \E throws \in BOOLEAN :
       rd' = [rd EXCEPT ![r] = ReadStep(rd[r], throws)]
  /\ UNCHANGED <<os, fs, gen, wr, ops, toFile>>

-----------------------------------------------------------------------------
(* IO.writeToFile *)

Writers == {1, 2}

\* the lines a data iterator may yield
SampleLines ==
  { <<>>, <<"a">>, <<"E">>, <<"X">>, <<"X", "X">>, <<"a", "LF", "a">>,
    <<"SUR">>, <<"BOM">>, <<"Z">> }

Inputs == Seqs(SampleLines, MaxLines)

TargetPath == "d/p"

\* the files written
WriteFiles == {f \in Files : PathOf(f) = TargetPath}

WrIdle ==
  [pc |-> "idle", path |-> "", input |-> <<>>, data |-> <<>>, buf |-> <<>>,
   bufLen |-> 0, chunk |-> <<>>, pos |-> 0, hasFlush |-> FALSE,
   at |-> "", alone |-> TRUE, calls |-> <<>>, result |-> NoError, cb |-> <<>>]

\* Array.prototype.join
RECURSIVE Join(_, _)
Join(buf, sep) ==
  IF buf = <<>> THEN <<>>
  ELSE IF Len(buf) = 1 THEN Head(buf)
  ELSE Head(buf) \o sep \o Join(Tail(buf), sep)

\* a chunk without the line break after its last line
EncodeChunkNoTrail(buf) == Encode(Join(buf, lineBreak))

\* line 141: encoder.encode(buf.join(lineBreak) + lineBreak)
EncodeChunk(buf) == Encode(Join(buf, lineBreak) \o lineBreak)

\* a buffer that is full only above BUFFER_SIZE
BufferFullAbove(bufLen) == bufLen > BUFFER_SIZE

\* line 151: if (bufLen >= BUFFER_SIZE)
BufferFull(bufLen) == bufLen >= BUFFER_SIZE

\* a writer that always writes a last chunk
LastChunkAlways(buf, bufLen) == TRUE

\* line 155: if (bufLen)
LastChunkDue(buf, bufLen) == bufLen # 0

\* lines 147-153: the for loop from its head to the next yield writeChunk(),
\* or to the end of data
RECURSIVE FillBuffer(_, _, _)
FillBuffer(data, buf, bufLen) ==
  IF data = <<>>
  THEN [data |-> data, buf |-> buf, bufLen |-> bufLen, full |-> FALSE]
  ELSE LET line == Head(data)
           b == Append(buf, line)
           n == bufLen + StrLen(line)
       IN  IF BufferFull(n)
           THEN [data |-> Tail(data), buf |-> b, bufLen |-> n, full |-> TRUE]
           ELSE FillBuffer(Tail(data), b, n)

\* lines 139-145: writeChunk() and the yield of its promise
WriteChunk(s, buf, next) ==
  [s EXCEPT !.chunk = EncodeChunk(buf), !.buf = <<>>, !.bufLen = 0,
            !.pc = next, !.calls = Append(@, "write")]

\* a writer that calls flush without looking for it
AfterWritesAlwaysFlush(s) ==
  [s EXCEPT !.pc = "flush", !.calls = Append(@, "flush")]

\* lines 158-161: flush if the handle has it, else close
AfterWrites(s) ==
  IF s.hasFlush THEN [s EXCEPT !.pc = "flush", !.calls = Append(@, "flush")]
  ELSE [s EXCEPT !.pc = "close", !.calls = Append(@, "close")]

\* lines 147-161: the task from the head of the for loop to its next yield
WriteLoop(s) ==
  LET r  == FillBuffer(s.data, s.buf, s.bufLen)
      s1 == [s EXCEPT !.data = r.data, !.buf = r.buf, !.bufLen = r.bufLen]
  IN  IF r.full THEN WriteChunk(s1, r.buf, "write")
      ELSE IF LastChunkDue(r.buf, r.bufLen) THEN WriteChunk(s1, r.buf, "lastwrite")
      ELSE AfterWrites(s1)

\* a task whose failure reaches the callback as null
RejectAsSuccess(s, error) == [s EXCEPT !.pc = "settled", !.result = NoError]

\* the task's promise is rejected with the error of the step that failed
Reject(s, error) == [s EXCEPT !.pc = "settled", !.result = error]

Zeros(n) == [i \in 1..n |-> 0]

\* how many bytes of a chunk a failed write may have written: none, half, all
PartialWrites(chunk) == {0, Len(chunk) \div 2, Len(chunk)}

\* the bytes of a file after writing bytes at offset pos
WriteAt(data, pos, bytes) ==
  (IF pos <= Len(data) THEN SubSeq(data, 1, pos)
   ELSE data \o Zeros(pos - Len(data)))
  \o bytes \o Drop(data, pos + Len(bytes))

\* the path a file is at after src was renamed to dst ("" once it is replaced)
Renamed(at, src, dst) == IF at = src THEN dst ELSE IF at = dst THEN "" ELSE at

\* the call: Task.spawn runs the task up to the yield of OS.File.open; alone
\* records that the caller made it with no other writeToFile in flight
WriteToFile(w) ==
  /\ wr[w].pc = "idle"
  /\ \E file \in WriteFiles, data \in Inputs :
       wr' = [wr EXCEPT ![w] = [WrIdle EXCEPT !.pc = "open",
                                              !.path = PathOf(file),
                                              !.input = data,
                                              !.data = data,
                                              !.alone = \A o \in Writers \ {w} :
                                                          wr[o].pc \in {"idle", "done"},
                                              !.calls = <<"open">>]]
  /\ UNCHANGED <<os, fs, gen, rd, ops, toFile>>

\* an open without truncate: true, which leaves the content of an existing
\* temp file in place
OpenKeepsContent(w) ==
  /\ wr[w].pc = "open"
  /\ LET s == wr[w]
         tmp == TmpPath(s.path)
     IN  \E ok \in BOOLEAN, flush \in BOOLEAN :
           IF ok /\ ~fs[tmp].isDir
           THEN /\ fs' = IF fs[tmp].exists THEN fs
                         ELSE [fs EXCEPT ![tmp] = FileOf(<<>>, 2)]
                /\ wr' = [wr EXCEPT ![w] = WriteLoop([s EXCEPT !.hasFlush = flush,
                                                                !.at = tmp])]
           ELSE /\ fs' = fs
                /\ wr' = [wr EXCEPT ![w] = Reject(s, "EOPEN")]
  /\ UNCHANGED <<os, gen, rd, ops, toFile>>

\* OS.File.open(tmpPath, {write: true, truncate: true}) settles: the file at
\* tmpPath is created or emptied and the handle f stands at offset 0 of it (at
\* is the path that file is at now)
OpenSettled(w) ==
  /\ wr[w].pc = "open"
  /\ LET s == wr[w]
         tmp == TmpPath(s.path)
     IN  \E ok \in BOOLEAN, flush \in BOOLEAN :
           IF ok /\ ~fs[tmp].isDir
           THEN /\ fs' = [fs EXCEPT ![tmp] = FileOf(<<>>, 2)]
                /\ wr' = [wr EXCEPT ![w] = WriteLoop([s EXCEPT !.hasFlush = flush,
                                                                !.at = tmp])]
           ELSE /\ fs' = fs
                /\ wr' = [wr EXCEPT ![w] = Reject(s, "EOPEN")]
  /\ UNCHANGED <<os, gen, rd, ops, toFile>>

\* f.write(array) settles; the bytes go to the file the handle was opened on,
\* at the handle's own offset; a failed write may have written part of array
WriteSettled(w) ==
  /\ wr[w].pc \in {"write", "lastwrite"}
  /\ LET s == wr[w]
         tmp == s.at
     IN  \E ok \in BOOLEAN, k \in PartialWrites(s.chunk) :
           LET n == IF ok THEN Len(s.chunk) ELSE k
               s1 == [s EXCEPT !.pos = @ + n, !.chunk = <<>>]
           IN  /\ ok => k = 0
               /\ fs' = IF tmp # "" /\ fs[tmp].exists /\ ~fs[tmp].isDir
                        THEN [fs EXCEPT ![tmp].data =
                                WriteAt(@, s.pos, SubSeq(s.chunk, 1, n))]
                        ELSE fs
               /\ wr' = [wr EXCEPT ![w] =
                           IF ~ok THEN Reject(s1, "EWRITE")
                           ELSE IF s.pc = "write" THEN WriteLoop(s1)
                           ELSE AfterWrites(s1)]
  /\ UNCHANGED <<os, gen, rd, ops, toFile>>

\* f.flush() settles
FlushSettled(w) ==
  /\ wr[w].pc = "flush"
  /\ \E ok \in BOOLEAN :
       wr' = [wr EXCEPT ![w] =
                IF ok THEN [wr[w] EXCEPT !.pc = "close", !.calls = Append(@, "close")]
                ELSE Reject(wr[w], "EFLUSH")]
  /\ UNCHANGED <<os, fs, gen, rd, ops, toFile>>

\* f.close() settles
CloseSettled(w) ==
  /\ wr[w].pc = "close"
  /\ \E ok \in BOOLEAN :
       wr' = [wr EXCEPT ![w] =
                IF ok THEN [wr[w] EXCEPT !.pc = "move", !.calls = Append(@, "move")]
                ELSE Reject(wr[w], "ECLOSE")]
  /\ UNCHANGED <<os, fs, gen, rd, ops, toFile>>

\* OS.File.move(tmpPath, file.path, {noCopy: true}) settles: a rename; a
\* handle open on the renamed file stays on it
MoveSettled(w) ==
  /\ wr[w].pc = "move"
  /\ LET s == wr[w]
         tmp == TmpPath(s.path)
     IN  \E ok \in BOOLEAN :
           IF ok /\ fs[tmp].exists /\ ~fs[s.path].isDir
           THEN /\ fs' = [fs EXCEPT ![s.path] = fs[tmp], ![tmp] = NoFile]
                /\ wr' = [o \in Writers |->
                            LET s1 == [wr[o] EXCEPT !.at = Renamed(@, tmp, s.path)]
                            IN  IF o = w THEN [s1 EXCEPT !.pc = "settled",
                                                         !.result = NoError]
                                ELSE s1]
           ELSE /\ fs' = fs
                /\ wr' = [wr EXCEPT ![w] = Reject(s, "EMOVE")]
  /\ UNCHANGED <<os, gen, rd, ops, toFile>>

\* line 163: .then(callback.bind(null, null), callback)
WriteCallback(w) ==
  /\ wr[w].pc = "settled"
  /\ wr' = [wr EXCEPT ![w] = [wr[w] EXCEPT !.pc = "done",
                                           !.cb = Append(@, wr[w].result)]]
  /\ UNCHANGED <<os, fs, gen, rd, ops, toFile>>

-----------------------------------------------------------------------------
(* IO.copyFile, IO.renameFile, IO.removeFile, IO.statFile *)

\* the second argument of statFile's callback
NoStat ==
  [given |-> FALSE, exists |-> FALSE, isDirectory |-> FALSE, isFile |-> FALSE,
   lastModified |-> 0]

\* lines 232-237: the Stat made from the info OS.File.stat resolves with
StatOfInfo(info) ==
  [given |-> TRUE, exists |-> TRUE, isDirectory |-> info.isDir,
   isFile |-> ~info.isDir, lastModified |-> info.mtime]

\* lines 242-247
StatMissing ==
  [given |-> TRUE, exists |-> FALSE, isDirectory |-> FALSE, isFile |-> FALSE,
   lastModified |-> 0]

\* an onError that takes no failure for a missing file
BecauseNever(e) == FALSE

\* e.becauseNoSuchFile
BecauseNoSuchFile(e) == e = "ENOENT"

\* one callback invocation
CbArgs(err, stat) == [err |-> err, stat |-> stat]

\* a call: op, the descriptor and name arguments, the paths handed to the
\* OS.File primitive, how the primitive ended, and the callbacks made
OpCall(op, file, other, newName, src, dst) ==
  [op |-> op, file |-> file, other |-> other, newName |-> newName,
   src |-> src, dst |-> dst, pc |-> "pending", prim |-> "pending",
   perr |-> NoError, cb |-> <<>>]

\* a call that reports the thrown error and leaves its continuations attached
ThrownStillPending(c) ==
  [c EXCEPT !.prim = "threw", !.perr = "ETHROW",
            !.cb = Append(@, CbArgs("ETHROW", NoStat))]

\* the catch block of each of the four: callback(e)
Thrown(c) ==
  [c EXCEPT !.pc = "done", !.prim = "threw", !.perr = "ETHROW",
            !.cb = Append(@, CbArgs("ETHROW", NoStat))]

\* lines 175-186
CopyFile ==
  /\ Len(ops) < MaxCalls
  /\ \E fromFile \in Files, to \in Files, threw \in BOOLEAN :
       LET c == OpCall("copy", fromFile, to, "", PathOf(fromFile), PathOf(to))
       IN  ops' = Append(ops, IF threw THEN Thrown(c) ELSE c)
  /\ UNCHANGED <<os, fs, gen, rd, wr, toFile>>

\* lines 191-204: toFile is assigned before the primitive is called
RenameFile ==
  /\ Len(ops) < MaxCalls
  /\ \E fromFile \in Files, newName \in Leaves, threw \in BOOLEAN :
       LET clone == [fromFile EXCEPT !.leaf = newName]
           c == OpCall("rename", fromFile, NoDesc, newName,
                       PathOf(fromFile), PathOf(clone))
       IN  /\ toFile' = clone
           /\ ops' = Append(ops, IF threw THEN Thrown(c) ELSE c)
  /\ UNCHANGED <<os, fs, gen, rd, wr>>

\* lines 209-220
RemoveFile ==
  /\ Len(ops) < MaxCalls
  /\ \E file \in Files, threw \in BOOLEAN :
       LET c == OpCall("remove", file, NoDesc, "", PathOf(file), "")
       IN  ops' = Append(ops, IF threw THEN Thrown(c) ELSE c)
  /\ UNCHANGED <<os, fs, gen, rd, wr, toFile>>

\* lines 225-257, up to promise.then
StatFile ==
  /\ Len(ops) < MaxCalls
  /\ \E file \in Files, threw \in BOOLEAN :
       LET c == OpCall("stat", file, NoDesc, "", PathOf(file), "")
       IN  ops' = Append(ops, IF threw THEN Thrown(c) ELSE c)
  /\ UNCHANGED <<os, fs, gen, rd, wr, toFile>>

\* the error a primitive must fail with in the present file system, or NoError
MustFail(c) ==
  IF ~fs[c.src].exists THEN "ENOENT"
  ELSE IF c.op = "copy" /\ (fs[c.src].isDir \/ fs[c.dst].isDir) THEN "EIO"
  ELSE IF c.op = "rename" /\ fs[c.dst].isDir THEN "EIO"
  ELSE IF c.op = "remove" /\ fs[c.src].isDir THEN "EIO"
  ELSE NoError

\* a move whose destination is read from toFile when it is carried out
EffectToShared(c) ==
  CASE c.op = "copy"   -> [fs EXCEPT ![c.dst] = FileOf(fs[c.src].data, 2)]
    [] c.op = "rename" -> IF c.src = PathOf(toFile) THEN fs
                          ELSE [fs EXCEPT ![PathOf(toFile)] = fs[c.src],
                                          ![c.src] = NoFile]
    [] c.op = "remove" -> [fs EXCEPT ![c.src] = NoFile]
    [] c.op = "stat"   -> fs

\* the file system after the primitive of call c succeeded
Effect(c) ==
  CASE c.op = "copy"   -> [fs EXCEPT ![c.dst] = FileOf(fs[c.src].data, 2)]
    [] c.op = "rename" -> IF c.src = c.dst THEN fs
                          ELSE [fs EXCEPT ![c.dst] = fs[c.src], ![c.src] = NoFile]
    [] c.op = "remove" -> [fs EXCEPT ![c.src] = NoFile]
    [] c.op = "stat"   -> fs

\* the continuations copyFile, renameFile and removeFile attach:
\* promise.then(callback.bind(null, null), callback)
OnSettled(c, error) ==
  [c EXCEPT !.pc = "done",
            !.prim = IF error = NoError THEN "resolved" ELSE "rejected",
            !.perr = error,
            !.cb = Append(@, CbArgs(error, NoStat))]

\* lines 230-237: onSuccess(info)
StatOnSuccess(c, info) ==
  [c EXCEPT !.pc = "done", !.prim = "resolved",
            !.cb = Append(@, CbArgs(NoError, StatOfInfo(info)))]

\* lines 238-251: onError(e)
StatOnError(c, e) ==
  [c EXCEPT !.pc = "done", !.prim = "rejected", !.perr = e,
            !.cb = Append(@, IF BecauseNoSuchFile(e)
                             THEN CbArgs(NoError, StatMissing)
                             ELSE CbArgs(e, NoStat))]

\* the promise of the primitive of call i settles and its continuation runs
OpSettled(i) ==
  /\ ops[i].pc = "pending"
  /\ LET c == ops[i]
     IN  \E ok \in BOOLEAN :
           LET error == IF MustFail(c) # NoError THEN MustFail(c)
                        ELSE IF ok THEN NoError ELSE "EIO"
           IN  /\ fs' = IF error = NoError THEN Effect(c) ELSE fs
               /\ ops' = [ops EXCEPT ![i] =
                            IF c.op # "stat" THEN OnSettled(c, error)
                            ELSE IF error = NoError THEN StatOnSuccess(c, fs[c.src])
                            ELSE StatOnError(c, error)]
  /\ UNCHANGED <<os, gen, rd, wr, toFile>>

-----------------------------------------------------------------------------
(* Specifications *)

OSes == {"WINNT", "Linux"}

Idle ==
  /\ gen = GenIdle
  /\ rd = [r \in Readers |-> RdIdle]
  /\ wr = [w \in Writers |-> WrIdle]
  /\ ops = <<>>
  /\ toFile = NoDesc

\* IO.lines alone
InitLines == os \in OSes /\ fs = EmptyFS /\ Idle

NextLines == LinesCall \/ LinesNext \/ LinesAgain

SpecLines == InitLines /\ [][NextLines]_vars

\* one readFromFile of d/p or d/q; d/p is missing, a directory, or a file
\* holding a text of Texts (with or without a byte order mark before it)
\* or bytes that are no UTF-8
ReadContents ==
  {Encode(t) : t \in Texts}
    \cup {<<239, 187, 191>> \o Encode(t) : t \in Seqs(ScanAlphabet, 2)}
    \cup {<<97, 255, 10, 97>>}

InitRead ==
  /\ os \in OSes
  /\ \E e \in {NoFile, DirEntry} \cup {FileOf(b, 1) : b \in ReadContents} :
       fs = [EmptyFS EXCEPT ![TargetPath] = e]
  /\ Idle

NextRead == ReadFromFile(1) \/ ReadSettled(1) \/ ReadResume(1)

SpecRead == InitRead /\ [][NextRead]_vars

\* the steps of a readFromFile task after the call
ReadSteps(r) == ReadSettled(r) \/ ReadResume(r)

\* a readFromFile call for d/p with no timeLineID
ReadTarget(r) ==
  /\ ReadFromFile(r)
  /\ rd'[r].path = TargetPath
  /\ rd'[r].timeLineID = NoID

\* two readFromFile tasks whose turns interleave in any order
NextReaders ==
  \/ \E r \in Readers : ReadTarget(r)
  \/ \E r \in Readers : ReadSteps(r)

SpecReaders == InitRead /\ [][NextReaders]_vars

\* one writeToFile; the target and the temp file may exist beforehand
InitWrite ==
  /\ os \in OSes
  /\ \E before \in {<<NoFile, NoFile>>, <<OldFile, StaleFile>>, <<OldFile, NoFile>>} :
       fs = [EmptyFS EXCEPT ![TargetPath] = before[1],
                            ![TmpPath(TargetPath)] = before[2]]
  /\ Idle

WriteSteps(w) ==
  \/ OpenSettled(w)
  \/ WriteSettled(w)
  \/ FlushSettled(w)
  \/ CloseSettled(w)
  \/ MoveSettled(w)
  \/ WriteCallback(w)

NextWrite == WriteToFile(1) \/ WriteSteps(1)

SpecWrite == InitWrite /\ [][NextWrite]_vars

\* the inputs of two writeToFile calls for one target
RaceInputs == { <<>>, << <<>> >>, << <<"a">> >>, << <<"X", "X">>, <<"E">> >> }

\* a writeToFile call with one of these inputs
WriteRace(w) == WriteToFile(w) /\ wr'[w].input \in RaceInputs

\* two writeToFile tasks for the same target whose turns interleave in any
\* order; nothing in writeToFile makes the second wait for the first
NextWriters ==
  \/ \E w \in Writers : WriteRace(w)
  \/ \E w \in Writers : WriteSteps(w)

SpecWriters == InitWrite /\ [][NextWriters]_vars

\* one writeToFile and, once its callback has reported success, one
\* readFromFile of the same file
InitRoundTrip ==
  /\ os \in OSes
  /\ fs = [EmptyFS EXCEPT ![TargetPath] = OldFile,
                          ![TmpPath(TargetPath)] = StaleFile]
  /\ Idle

ReadAfterWrite ==
  /\ wr[1].pc = "done"
  /\ wr[1].cb = <<NoError>>
  /\ ReadFromFile(1)
  /\ rd'[1].path = wr[1].path
  /\ rd'[1].timeLineID = NoID

NextRoundTrip ==
  \/ WriteToFile(1)
  \/ WriteSteps(1)
  \/ ReadAfterWrite
  \/ ReadSettled(1)
  \/ ReadResume(1)

SpecRoundTrip == InitRoundTrip /\ [][NextRoundTrip]_vars

\* the four file operations, called and settled in any order
InitOps ==
  /\ os \in OSes
  /\ \E e \in {NoFile, DirEntry, OldFile} :
       fs = [EmptyFS EXCEPT ![TargetPath] = e]
  /\ Idle

NextOps ==
  \/ CopyFile
  \/ RenameFile
  \/ RemoveFile
  \/ StatFile
  \/ \E i \in 1..Len(ops) : OpSettled(i)

SpecOps == InitOps /\ [][NextOps]_vars

-----------------------------------------------------------------------------
(* Properties of writeToFile, under SpecWrite *)

\* the text a sequence of lines stands for: every line followed by one line break
RECURSIVE LinesText(_)
LinesText(lines) ==
  IF lines = <<>> THEN <<>>
  ELSE Head(lines) \o lineBreak \o LinesText(Tail(lines))

Last(s) == s[Len(s)]

\* the temp file of a target: the target's path with ".tmp" after it
TempOf(path) == path \o ".tmp"

Count(s, x) == Cardinality({i \in 1..Len(s) : s[i] = x})

Succeeded(w) == wr[w].pc \in {"settled", "done"} /\ wr[w].result = NoError

\* C1: when writeToFile completes successfully, the target holds exactly the
\* input lines in input order, each followed by one line break.
C1_WrittenIsEveryLine ==
  \A w \in Writers :
    Succeeded(w) => fs[wr[w].path].data = Encode(LinesText(wr[w].input))

\* C1 for the inputs whose last buffer holds a character: those the code
\* writes in full
C1_HoldsWhenLastBufferCounts ==
  \A w \in Writers :
    (Succeeded(w) /\ (wr[w].input = <<>> \/ Last(wr[w].input) # <<>>))
      => fs[wr[w].path].data = Encode(LinesText(wr[w].input))

\* the primitive calls of a run that got as far as the move
FullRun(calls, hasFlush) ==
  /\ Len(calls) >= 3
  /\ calls[1] = "open"
  /\ Last(calls) = "move"
  /\ calls[Len(calls) - 1] = "close"
  /\ \A i \in 2..(Len(calls) - 2) :
       calls[i] = "write" \/ (i = Len(calls) - 2 /\ calls[i] = "flush")
  /\ (calls[Len(calls) - 2] = "flush") = hasFlush

\* C2: only the temp file changes, but for the step in which the move
\* succeeds, which changes the target; and the move has been issued only after
\* open, every chunk write, the flush (if the handle has one) and close, none
\* of which failed.
C2_TargetChangesOnlyByMove ==
  [][\A p \in Paths :
       fs'[p] # fs[p] =>
         \/ p = TempOf(wr[1].path)
         \/ /\ p = wr[1].path
            /\ wr[1].pc = "move"
            /\ FullRun(wr[1].calls, wr[1].hasFlush)
            /\ wr[1].data = <<>>
            /\ wr[1].result = NoError
            /\ wr'[1].result = NoError
            /\ fs'[p] = fs[TempOf(p)]]_vars

\* C2: the second chunk write failed; the target is as it was
C2_Witness ==
  /\ wr[1].result = "EWRITE"
  /\ wr[1].calls = <<"open", "write", "write">>
  /\ fs[TargetPath] = OldFile
  /\ fs[TempOf(TargetPath)].data # <<>>

ErrorOfStep(step) ==
  CASE step = "open" -> "EOPEN"
    [] step = "write" -> "EWRITE"
    [] step = "flush" -> "EFLUSH"
    [] step = "close" -> "ECLOSE"
    [] step = "move" -> "EMOVE"

\* C3: the callback is called at most once, exactly once by the time the task
\* is over, and not before, and a task that is not over always has a step to
\* take; the callback gets null only after the move succeeded, else the error
\* of the step that failed, which is the last step called.
C3_OneCallbackFirstError ==
  \A w \in Writers :
    LET s == wr[w]
    IN  /\ Len(s.cb) = (IF s.pc = "done" THEN 1 ELSE 0)
        /\ s.pc \notin {"idle", "done"} => ENABLED WriteSteps(w)
        /\ s.pc = "done" =>
             /\ s.cb = <<s.result>>
             /\ s.result = NoError =>
                  /\ FullRun(s.calls, s.hasFlush)
                  /\ ~fs[TempOf(s.path)].exists
                  /\ fs[s.path].exists
             /\ s.result # NoError => s.result = ErrorOfStep(Last(s.calls))
        /\ s.pc = "settled" /\ s.result # NoError =>
             s.result = ErrorOfStep(Last(s.calls))

\* C3: the flush failed after two chunk writes; neither close nor move was called
C3_Witness ==
  /\ wr[1].pc = "done"
  /\ wr[1].cb = <<"EFLUSH">>
  /\ wr[1].calls = <<"open", "write", "write", "flush">>

-----------------------------------------------------------------------------
(* Properties of readFromFile, under SpecRead *)

LineBreakChars == {"CR", "LF"}

\* the non-empty lines of a text, cur being the line read so far: the text is
\* cut at every CR and LF and the empty pieces are left out
RECURSIVE SplitLines(_, _)
SplitLines(text, cur) ==
  IF text = <<>> THEN (IF cur = <<>> THEN <<>> ELSE <<cur>>)
  ELSE IF Head(text) \in LineBreakChars
       THEN (IF cur = <<>> THEN <<>> ELSE <<cur>>) \o SplitLines(Tail(text), <<>>)
       ELSE SplitLines(Tail(text), Append(cur, Head(text)))

\* the process calls a complete delivery of a text makes
Delivery(text) ==
  LET ls == SplitLines(text, <<>>)
  IN  [i \in 1..(Len(ls) + 1) |-> IF i <= Len(ls) THEN LineArg(ls[i]) ELSE NullArg]

\* the text of the file a reader reads
TextRead(r) == Decode(fs[rd[r].path].data)

IsReadError(x) == x \in {"ETHROW", "ENOENT", "EIO"}

\* C4: a read that ended with callback(null) has called process once for each
\* non-empty line of the text, in the text's order, and then process(null),
\* once and last; while lines are being delivered, the calls made are the
\* first lines of the text and none is null.
C4_LinesThenNull ==
  \A r \in Readers :
    LET s == rd[r]
    IN  /\ (s.pc = "done" /\ s.cb = <<NoError>>) =>
             s.delivered = Delivery(TextRead(r))
        /\ s.pc = "deliver" =>
             /\ IsPrefix(s.delivered, Delivery(TextRead(r)))
             /\ \A i \in 1..Len(s.delivered) : ~s.delivered[i].isNull

\* C4: the text "a", LF, LF, "E" was delivered as "a", "E", null
C4_Witness ==
  /\ rd[1].pc = "done"
  /\ rd[1].cb = <<NoError>>
  /\ rd[1].text = <<"a", "LF", "LF", "E">>
  /\ rd[1].delivered = <<LineArg(<<"a">>), LineArg(<<"E">>), NullArg>>

\* C5: the callback is called at most once, exactly once by the time the task
\* is over, as the task's last act (after every process call), and a task
\* that is not over always has a step to take; the callback gets null only
\* when the read succeeded and the delivery ended with process(null), and the
\* read's error when the read failed.
C5_OneCallbackAfterDelivery ==
  \A r \in Readers :
    LET s == rd[r]
    IN  /\ Len(s.cb) = (IF s.pc = "done" THEN 1 ELSE 0)
        /\ s.pc \notin {"idle", "done"} => ENABLED (ReadSettled(r) \/ ReadResume(r))
        /\ Count(s.events, "callback") = Len(s.cb)
        /\ Count(s.events, "process") = Len(s.delivered)
        /\ s.pc = "done" =>
             /\ Last(s.events) = "callback"
             /\ s.cb[1] = NoError =>
                  (s.read = NoError /\ s.delivered # <<>> /\ Last(s.delivered).isNull)
             /\ (s.read = NoError /\ s.delivered = Delivery(TextRead(r))
                   /\ s.cb[1] # "EPROCESS") => s.cb[1] = NoError
             /\ IsReadError(s.read) => s.cb = <<s.read>>

\* C5: a read of two lines ended with callback(null) after three process calls
C5_Witness ==
  /\ rd[1].pc = "done"
  /\ rd[1].cb = <<NoError>>
  /\ rd[1].timeLineID = NoID
  /\ rd[1].events = <<"process", "process", "process", "callback">>

\* C6: when OS.File.read fails, process is never called, neither with a line
\* nor with null, and the callback gets the read's error.
C6_NoDeliveryAfterFailedRead ==
  \A r \in Readers :
    LET s == rd[r]
    IN  /\ IsReadError(s.read) =>
             /\ s.delivered = <<>>
             /\ Count(s.events, "process") = 0
             /\ s.pc = "done"
             /\ s.cb = <<s.read>>
        /\ (s.pc = "done" /\ ~fs[s.path].exists) => IsReadError(s.read)

\* C6: the read of an existing file with content failed
C6_Witness ==
  /\ rd[1].pc = "done"
  /\ rd[1].read = "EIO"
  /\ fs[rd[1].path].exists
  /\ SplitLines(TextRead(1), <<>>) # <<>>
  /\ rd[1].delivered = <<>>
  /\ rd[1].cb = <<"EIO">>

-----------------------------------------------------------------------------
(* Properties of IO.lines, under SpecLines *)

NotLineBreak(c) == c \notin LineBreakChars

\* the places of a text where a maximal run of characters other than CR and
\* LF starts
RunStarts(text) ==
  {i \in 1..Len(text) :
     /\ text[i] \notin LineBreakChars
     /\ (i = 1 \/ text[i - 1] \in LineBreakChars)}

\* C10: the generator yields the maximal runs of characters other than CR and
\* LF, in the text's order: as many as there are runs, none empty, none with a
\* CR or LF, together all the other characters of the text; nothing for a
\* text without such characters; and the same again when IO.lines is called
\* again on the text.
C10_LinesAreMaximalRuns ==
  /\ gen.pc # "idle" => IsPrefix(gen.out, SplitLines(gen.text, <<>>))
  /\ \A i \in 1..Len(gen.out) :
       /\ gen.out[i] # <<>>
       /\ \A k \in 1..Len(gen.out[i]) : gen.out[i][k] \notin LineBreakChars
  /\ gen.pc = "done" =>
       /\ gen.out = SplitLines(gen.text, <<>>)
       /\ Len(gen.out) = Cardinality(RunStarts(gen.text))
       /\ Concat(gen.out) = SelectSeq(gen.text, NotLineBreak)
       /\ (\A k \in 1..Len(gen.text) : gen.text[k] \in LineBreakChars) => gen.out = <<>>
       /\ gen.prev # NoRun => gen.out = gen.prev

\* C10: a text with a CR, an empty line and two runs, scanned twice
C10_Witness ==
  /\ gen.pc = "done"
  /\ gen.text = <<"a", "CR", "LF", "E">>
  /\ gen.prev = <<<<"a">>, <<"E">>>>
  /\ gen.out = gen.prev

-----------------------------------------------------------------------------
(* Writing, then reading back, under SpecRoundTrip *)

\* the process calls that hand over the lines as they were written, then null
Handed(lines) ==
  [i \in 1..(Len(lines) + 1) |-> IF i <= Len(lines) THEN LineArg(lines[i]) ELSE NullArg]

ReadBack(r, w) ==
  /\ Succeeded(w) /\ wr[w].pc = "done"
  /\ rd[r].pc = "done"
  /\ rd[r].cb = <<NoError>>
  /\ rd[r].path = wr[w].path

\* C7 as stated: whatever lines are written, reading the file back hands over
\* the same lines in the same order, then null.
C7_RoundTripAnyLines ==
  ReadBack(1, 1) => rd[1].delivered = Handed(wr[1].input)

\* lines that survive the way through the file: none empty, none with a CR, LF
\* or unpaired surrogate, and no U+FEFF as the first character of the file
SurvivingLines(lines) ==
  /\ \A i \in 1..Len(lines) :
       /\ lines[i] # <<>>
       /\ \A k \in 1..Len(lines[i]) : lines[i][k] \notin {"CR", "LF", "SUR"}
  /\ lines # <<>> => lines[1][1] # "BOM"

\* C7, amended: when every line written is non-empty and has no CR, LF or
\* unpaired surrogate, and the first line does not begin with U+FEFF, reading
\* the file back hands over the same lines in the same order, then null.
C7_RoundTripSurvivingLines ==
  (ReadBack(1, 1) /\ SurvivingLines(wr[1].input)) =>
    rd[1].delivered = Handed(wr[1].input)

\* C7: a line of 32768 characters written as a chunk of its own, a second
\* line written by the last write, and both read back
C7_Witness ==
  /\ ReadBack(1, 1)
  /\ wr[1].input = <<<<"X", "X">>, <<"E">>>>
  /\ Count(wr[1].calls, "write") = 2
  /\ rd[1].delivered = <<LineArg(<<"X", "X">>), LineArg(<<"E">>), NullArg>>

-----------------------------------------------------------------------------
(* Properties of copyFile, renameFile, removeFile and statFile, under SpecOps *)

\* the Stat of a missing file
MissingStat(st) ==
  /\ st.given
  /\ ~st.exists /\ ~st.isDirectory /\ ~st.isFile /\ st.lastModified = 0

\* C8: when OS.File.stat fails for want of the file, statFile calls back with
\* null and a Stat of exists = false, isDirectory = false, isFile = false,
\* lastModified = 0, at every call; any other failure is handed over as the
\* error, without a Stat.  In every Stat handed over, exists = false comes
\* with false, false and 0, and exists = true with exactly one of isDirectory
\* and isFile.
C8_StatOfMissingFile ==
  \A i \in 1..Len(ops) :
    LET c == ops[i]
    IN  c.op = "stat" =>
          /\ (c.prim = "rejected" /\ c.perr = "ENOENT") =>
               (c.cb = <<CbArgs(NoError, c.cb[1].stat)>> /\ MissingStat(c.cb[1].stat))
          /\ (c.prim \in {"rejected", "threw"} /\ c.perr # "ENOENT") =>
               c.cb = <<CbArgs(c.perr, NoStat)>>
          /\ \A k \in 1..Len(c.cb) :
               LET st == c.cb[k].stat
               IN  st.given =>
                     /\ c.cb[k].err = NoError
                     /\ ~st.exists => MissingStat(st)
                     /\ st.exists => (st.isDirectory # st.isFile)

\* C8: two statFile calls for the same missing file, both answered with
\* exists = false and no error
C8_Witness ==
  /\ Len(ops) = 2
  /\ \A i \in 1..2 :
       /\ ops[i].op = "stat"
       /\ ops[i].src = ops[1].src
       /\ ops[i].pc = "done"
       /\ ops[i].perr = "ENOENT"
       /\ ops[i].cb = <<CbArgs(NoError, StatMissing)>>

\* what every call does with its callback, whatever the operation: never
\* called twice, called once when the call is over; the thrown error when the
\* primitive threw, after which no continuation is left
OneCallback(c) ==
  /\ Len(c.cb) = (IF c.pc = "done" THEN 1 ELSE 0)
  /\ c.prim = "threw" => (c.pc = "done" /\ c.cb[1].err = c.perr /\ c.perr # NoError)
  /\ c.prim = "resolved" => c.cb[1].err = NoError

\* C9 as stated: each of the four operations calls back exactly once: with the
\* thrown error when the primitive throws, with null when it resolves, with
\* the primitive's error when it rejects.
C9_CallbackGetsPrimitiveOutcome ==
  \A i \in 1..Len(ops) :
    LET c == ops[i]
    IN  /\ OneCallback(c)
        /\ c.prim = "rejected" => (c.cb[1].err = c.perr /\ c.perr # NoError)

\* C9, amended: each of the four operations calls back exactly once: with the
\* thrown error when the primitive throws, with null when it resolves, and
\* with the primitive's error when it rejects, except that statFile answers a
\* rejection for want of the file with null and a Stat of exists = false.
C9_CallbackOutcomeButMissingStat ==
  \A i \in 1..Len(ops) :
    LET c == ops[i]
    IN  /\ OneCallback(c)
        /\ c.prim = "rejected" =>
             /\ c.perr # NoError
             /\ IF c.op = "stat" /\ c.perr = "ENOENT"
                THEN c.cb[1].err = NoError /\ MissingStat(c.cb[1].stat)
                ELSE c.cb[1].err = c.perr

\* C9: removeFile of a missing file has called back with the error, and a
\* call whose primitive threw has called back with what was thrown
C9_Witness ==
  /\ Len(ops) = 2
  /\ ops[1].op = "remove" /\ ~fs[ops[1].src].exists
  /\ ops[1].prim = "rejected" /\ ops[1].cb = <<CbArgs("ENOENT", NoStat)>>
  /\ ops[2].prim = "threw" /\ ops[2].cb = <<CbArgs("ETHROW", NoStat)>>

-----------------------------------------------------------------------------
(* The primitive calls of writeToFile, under SpecWrite *)

\* the primitive calls of a successful run that writes nothing
EmptyRun(hasFlush) ==
  <<"open">> \o (IF hasFlush THEN <<"flush">> ELSE <<>>) \o <<"close", "move">>

\* C11: writeToFile with an empty input opens the temp file truncated, makes
\* no write call, then calls flush (if the handle has it), close and move, in
\* that order; when none of them fails the callback gets null and the target
\* exists with empty content.
C11_EmptyInputWritesNothing ==
  \A w \in Writers :
    LET s == wr[w]
    IN  (s.input = <<>> /\ s.pc # "idle") =>
          /\ Count(s.calls, "write") = 0
          /\ s.pc = "open" => s.calls = <<"open">>
          /\ s.pc \in {"flush", "close", "move"} =>
               /\ IsPrefix(s.calls, EmptyRun(s.hasFlush))
               /\ Last(s.calls) = s.pc
               /\ fs[TempOf(s.path)].exists
               /\ fs[TempOf(s.path)].data = <<>>
          /\ s.pc \in {"settled", "done"} =>
               IF s.result = NoError
               THEN /\ s.calls = EmptyRun(s.hasFlush)
                    /\ fs[s.path].exists
                    /\ ~fs[s.path].isDir
                    /\ fs[s.path].data = <<>>
                    /\ ~fs[TempOf(s.path)].exists
               ELSE /\ IsPrefix(s.calls, EmptyRun(s.hasFlush))
                    /\ s.result = ErrorOfStep(Last(s.calls))
          /\ s.pc = "done" => s.cb = <<s.result>>

\* C11: an empty input was written through a handle with flush; the callback
\* got null and the target is an empty file
C11_Witness ==
  /\ wr[1].input = <<>>
  /\ wr[1].pc = "done"
  /\ wr[1].cb = <<NoError>>
  /\ wr[1].calls = <<"open", "flush", "close", "move">>
  /\ fs[TargetPath].exists
  /\ fs[TargetPath].data = <<>>
  /\ os = "WINNT"

\* the lines appended to the buffer and not yet handed to a chunk write when
\* the input is exhausted, buf being the buffer so far: a chunk write in the
\* loop takes the whole buffer once it holds BUFFER_SIZE characters
RECURSIVE Unwritten(_, _)
Unwritten(data, buf) ==
  IF data = <<>> THEN buf
  ELSE LET b == Append(buf, Head(data))
       IN  IF StrLen(Concat(b)) >= BUFFER_SIZE THEN Unwritten(Tail(data), <<>>)
           ELSE Unwritten(Tail(data), b)

\* the number of chunk writes the loop issues for an input
RECURSIVE LoopWrites(_, _)
LoopWrites(data, buf) ==
  IF data = <<>> THEN 0
  ELSE LET b == Append(buf, Head(data))
       IN  IF StrLen(Concat(b)) >= BUFFER_SIZE THEN 1 + LoopWrites(Tail(data), <<>>)
           ELSE LoopWrites(Tail(data), b)

\* the task has left the for loop
PastLoop(s) ==
  \/ s.pc \in {"lastwrite", "flush", "close", "move"}
  \/ s.pc \in {"settled", "done"} /\ Last(s.calls) \in {"flush", "close", "move"}

\* C12: once the input is exhausted, exactly one final write call is made
\* before flush/close if the buffer still holds at least one appended line
\* (empty-string lines included), and none if it holds no line.
C12_FinalWriteIffLinesBuffered ==
  \A w \in Writers :
    LET s == wr[w]
    IN  PastLoop(s) =>
          Count(s.calls, "write") =
            LoopWrites(s.input, <<>>)
              + (IF Unwritten(s.input, <<>>) # <<>> THEN 1 ELSE 0)

\* C12 for the inputs whose last buffer holds a character, and the other half
\* of the statement: no final write when no line is buffered
C12_HoldsWhenLastBufferCounts ==
  \A w \in Writers :
    LET s == wr[w]
        left == Unwritten(s.input, <<>>)
    IN  (PastLoop(s) /\ (left = <<>> \/ StrLen(Concat(left)) > 0)) =>
          Count(s.calls, "write") =
            LoopWrites(s.input, <<>>) + (IF left # <<>> THEN 1 ELSE 0)

\* the buffers the loop hands to a chunk write, in order, buf being the buffer
\* so far: a line is appended, and the buffer is written and emptied when it
\* then holds BUFFER_SIZE characters or more, line breaks not counted
RECURSIVE Chunks(_, _)
Chunks(data, buf) ==
  IF data = <<>> THEN <<>>
  ELSE LET b == Append(buf, Head(data))
       IN  IF StrLen(Concat(b)) >= BUFFER_SIZE
           THEN <<b>> \o Chunks(Tail(data), <<>>)
           ELSE Chunks(Tail(data), b)

\* the number of lines in the first k buffers
RECURSIVE LinesIn(_, _)
LinesIn(chunks, k) ==
  IF k = 0 THEN 0 ELSE Len(chunks[k]) + LinesIn(chunks, k - 1)

\* C13: the loop issues a chunk write exactly when, after appending a line,
\* the accumulated character length (line breaks not counted) is 32768 or
\* more; the write takes the whole buffer and leaves the buffer empty and the
\* counter 0 before the next line is appended, so the counter is below 32768
\* whenever the loop takes a line; one line of 40000 characters causes exactly
\* one write call in total.
C13_ChunkWriteAtThreshold ==
  \A w \in Writers :
    LET s == wr[w]
        chunks == Chunks(s.input, <<>>)
        k == Count(s.calls, "write")
    IN  /\ s.bufLen < 32768
        /\ s.bufLen = StrLen(Concat(s.buf))
        /\ s.pc = "write" =>
             /\ k <= Len(chunks)
             /\ s.chunk = Encode(LinesText(chunks[k]))
             /\ s.data = Drop(s.input, LinesIn(chunks, k))
             /\ s.buf = <<>>
             /\ s.bufLen = 0
        /\ PastLoop(s) =>
             /\ k \in {Len(chunks), Len(chunks) + 1}
             /\ s.pc = "lastwrite" =>
                  /\ k = Len(chunks) + 1
                  /\ s.chunk = Encode(LinesText(Unwritten(s.input, <<>>)))
             /\ Unwritten(s.input, <<>>) = <<>> => k = Len(chunks)
        /\ (s.input = << <<"Z">> >> /\ PastLoop(s)) => k = 1

\* C13: one line of 40000 characters was written by one write call, through a
\* handle without flush
C13_Witness ==
  /\ wr[1].input = << <<"Z">> >>
  /\ wr[1].pc = "done"
  /\ wr[1].cb = <<NoError>>
  /\ wr[1].calls = <<"open", "write", "close", "move">>
  /\ fs[TargetPath].data = <<ByteRun(122, 40000), 10>>

\* C13: a write in the loop for two lines of 16384 characters, the third line
\* still to be taken
C13_SecondChunkPending ==
  /\ wr[1].input = << <<"X", "X">>, <<"X">>, <<"X">> >>
  /\ wr[1].pc = "write"
  /\ wr[1].calls = <<"open", "write", "write">>
  /\ wr[1].data = <<>>

\* the primitive calls of a run with n writes that got as far as the move
RunOf(n, hasFlush) ==
  <<"open">> \o [i \in 1..n |-> "write"]
    \o (IF hasFlush THEN <<"flush">> ELSE <<>>) \o <<"close", "move">>

\* the primitive call whose promise the task waits for
PendingCall(pc) == IF pc = "lastwrite" THEN "write" ELSE pc

\* C14: the primitive calls are made in the order open (of the target's path
\* with ".tmp" after it, truncating), zero or more writes, flush (only if the
\* handle has it), close, move (temp to target), each one in the step in which
\* the one before it resolved; without flush, close comes right after the last
\* write and the callback gets null.
C14_PrimitivesInOrder ==
  [][\A w \in Writers :
       LET s == wr[w]
           t == wr'[w]
           tmp == TempOf(t.path)
       IN  /\ \E n \in 0..Len(t.calls) : IsPrefix(t.calls, RunOf(n, t.hasFlush))
           /\ t.calls # s.calls =>
                \/ s.pc = "idle" /\ t.calls = <<"open">> /\ t.pc = "open"
                \/ /\ s.pc \in {"open", "write", "lastwrite", "flush", "close"}
                   /\ Last(s.calls) = PendingCall(s.pc)
                   /\ t.calls = Append(s.calls, PendingCall(t.pc))
                   /\ t.result = NoError
           /\ (s.pc = "open" /\ t.pc # "settled") =>
                /\ fs'[tmp].exists /\ fs'[tmp].data = <<>>
                /\ \A p \in Paths \ {tmp} : fs'[p] = fs[p]
           /\ (s.pc = "move" /\ t.result = NoError) =>
                /\ t.pc = "settled"
                /\ t.calls = s.calls
                /\ fs'[t.path] = fs[tmp]
                /\ ~fs'[tmp].exists
           /\ (s.pc = "settled" /\ t.pc = "done") => t.cb = <<s.result>>
           /\ (t.pc = "done" /\ t.result = NoError) =>
                \E n \in 0..Len(t.calls) : t.calls = RunOf(n, t.hasFlush)]_vars

\* C14: two chunks were written through a handle without flush; close came
\* right after the second write
C14_Witness ==
  /\ wr[1].pc = "done"
  /\ wr[1].cb = <<NoError>>
  /\ ~wr[1].hasFlush
  /\ wr[1].calls = <<"open", "write", "write", "close", "move">>

-----------------------------------------------------------------------------
(* The timeline hooks and a throwing listener of readFromFile, under SpecRead *)

\* the hook calls, process calls and callback a reader has made, as the
\* statement orders them
EventsOf(s) ==
  LET given == s.timeLineID # NoID
  IN  (IF given THEN <<"asyncStart">> ELSE <<>>)
        \o (IF given /\ s.read = NoError THEN <<"asyncEnd">> ELSE <<>>)
        \o [i \in 1..Len(s.delivered) |-> "process"]
        \o (IF given /\ s.pc = "done" THEN <<"asyncDone">> ELSE <<>>)
        \o (IF s.pc = "done" THEN <<"callback">> ELSE <<>>)

\* C16: with a timeLineID, asyncStart is called once, before the read is
\* issued; asyncEnd once after the read succeeded and before the first process
\* call, and not at all when the read fails; asyncDone once in every outcome,
\* after the last process call and right before the callback; without a
\* timeLineID none of the three is called.
C16_TimelineHooks ==
  \A r \in Readers :
    LET s == rd[r]
    IN  s.pc # "idle" =>
          /\ s.read # "none"
          /\ s.events = EventsOf(s)
          /\ s.pc = "done" => Len(s.cb) = 1
          /\ IsReadError(s.read) => s.pc = "done"

\* C16: a read with a timeLineID delivered two lines and null
C16_Witness ==
  /\ rd[1].pc = "done"
  /\ rd[1].timeLineID # NoID
  /\ rd[1].cb = <<NoError>>
  /\ rd[1].events = <<"asyncStart", "asyncEnd", "process", "process", "process",
                      "asyncDone", "callback">>

\* C16: a read with a timeLineID failed
C16_FailedReadWitness ==
  /\ rd[1].pc = "done"
  /\ rd[1].timeLineID # NoID
  /\ rd[1].read = "ENOENT"
  /\ rd[1].events = <<"asyncStart", "asyncDone", "callback">>

\* C18: when the listener's process throws, on a line or on the closing null,
\* that call is the last process call, the task ends in the same step (the
\* exception is caught), and the callback is called exactly once, with the
\* thrown value, right after asyncDone when a timeLineID was given.
C18_ThrowingListener ==
  \A r \in Readers :
    LET s == rd[r]
        n == Len(s.events)
    IN  /\ s.threw =>
             /\ s.pc = "done"
             /\ ~ENABLED (ReadSettled(r) \/ ReadResume(r))
             /\ s.cb = <<"EPROCESS">>
             /\ s.delivered # <<>>
             /\ IsPrefix(s.delivered, Delivery(s.text))
             /\ s.events[n] = "callback"
             /\ Count(s.events, "callback") = 1
             /\ IF s.timeLineID # NoID
                THEN /\ s.events[n - 1] = "asyncDone"
                     /\ s.events[n - 2] = "process"
                     /\ Count(s.events, "asyncDone") = 1
                ELSE s.events[n - 1] = "process"
             /\ Count(s.events, "process") = Len(s.delivered)
        /\ (s.cb # <<>> /\ s.cb[1] = "EPROCESS") => s.threw

\* C18: process threw on the first of two lines of a read with a timeLineID
C18_Witness ==
  /\ rd[1].threw
  /\ rd[1].timeLineID # NoID
  /\ Len(SplitLines(rd[1].text, <<>>)) = 2
  /\ rd[1].delivered = <<LineArg(<<"a">>)>>
  /\ rd[1].events = <<"asyncStart", "asyncEnd", "process", "asyncDone", "callback">>
  /\ rd[1].cb = <<"EPROCESS">>

\* C18: process threw on the closing null, after one line
C18_SentinelWitness ==
  /\ rd[1].threw
  /\ rd[1].delivered = <<LineArg(<<"a">>), NullArg>>
  /\ rd[1].cb = <<"EPROCESS">>

-----------------------------------------------------------------------------
(* renameFile with several calls in flight, under SpecOps *)

\* the path of leaf name in the directory of descriptor f
Sibling(f, name) == f.dir \o "/" \o name

\* C19: every renameFile call has OS.File.move called with its own fromFile's
\* path as source and, as destination, the path of newName in the same
\* directory, and leaves the fromFile descriptor as it was; this holds for
\* each call when several are in flight and settle in any order, although
\* every call stores its destination descriptor in the one variable toFile.
C19_RenameMovesOwnFile ==
  [][/\ \A i \in 1..Len(ops') :
          LET c == ops'[i]
          IN  c.op = "rename" =>
                /\ c.src = PathOf(c.file)
                /\ c.dst = Sibling(c.file, c.newName)
                /\ i <= Len(ops) =>
                     /\ c.file = ops[i].file
                     /\ c.newName = ops[i].newName
                     /\ c.src = ops[i].src
                     /\ c.dst = ops[i].dst
     /\ \A i \in 1..Len(ops) :
          LET c == ops[i]
              from == PathOf(c.file)
              to == Sibling(c.file, c.newName)
          IN  (c.op = "rename" /\ c.pc = "pending" /\ ops'[i].prim = "resolved") =>
                /\ fs[from].exists
                /\ fs' = IF from = to THEN fs
                         ELSE [fs EXCEPT ![to] = fs[from], ![from] = NoFile]
     /\ (Len(ops') > Len(ops) /\ Last(ops').op = "rename") =>
          /\ toFile' = [Last(ops').file EXCEPT !.leaf = Last(ops').newName]
          /\ toFile' \in Files]_vars

\* C19: two renameFile calls were in flight together, the second had
\* overwritten toFile, and the move of the first has taken its own file to its
\* own new name
C19_Witness ==
  /\ Len(ops) = 2
  /\ ops[1].op = "rename" /\ ops[2].op = "rename"
  /\ ops[1].newName = "q" /\ ops[2].newName = "p"
  /\ ops[1].file = ops[2].file
  /\ toFile = [ops[2].file EXCEPT !.leaf = "p"]
  /\ ops[1].prim = "resolved" /\ ops[2].pc = "pending"
  /\ fs["d/q"] = OldFile /\ ~fs["d/p"].exists

-----------------------------------------------------------------------------
(* Two readFromFile tasks at once, under SpecReaders *)

InFlight(s) == s.pc \in {"reading", "deliver"}

\* C15: a readFromFile task makes at most one process call (a line or the
\* closing null) in one turn of the scheduler; after process(line) it yields,
\* and while it waits any other task in flight can take its turn; the calls
\* each reader makes are the lines of the text it read, in the text's order,
\* however the turns of the readers interleave.
C15_OneDeliveryPerTurn ==
  [][\A r \in Readers :
       LET s == rd[r]
           t == rd'[r]
       IN  /\ Len(t.delivered) <= Len(s.delivered) + 1
           /\ IsPrefix(s.delivered, t.delivered)
           /\ t.read = NoError => IsPrefix(t.delivered, Delivery(t.text))
           /\ (Len(t.delivered) > Len(s.delivered) /\ ~Last(t.delivered).isNull
                 /\ ~t.threw) => t.pc = "deliver"
           /\ s.pc = "deliver" =>
                /\ ENABLED ReadResume(r)
                /\ \A o \in Readers \ {r} :
                     /\ InFlight(rd[o]) => ENABLED ReadSteps(o)
                     /\ rd[o].pc = "idle" => ENABLED ReadFromFile(o)]_vars

\* C15: both readers have delivered the first of their two lines and wait for
\* their next turn
C15_Witness ==
  /\ \A r \in Readers :
       /\ rd[r].pc = "deliver"
       /\ Len(rd[r].delivered) = 1
  /\ Len(SplitLines(rd[1].text, <<>>)) = 2
  /\ rd[1].text = rd[2].text

\* C15: reader 1 has made all its calls while reader 2 waits between its first
\* and its second
C15_OvertakenWitness ==
  /\ rd[1].pc = "done" /\ rd[1].cb = <<NoError>>
  /\ Len(rd[1].delivered) = 3
  /\ rd[2].pc = "deliver" /\ Len(rd[2].delivered) = 1

-----------------------------------------------------------------------------
(* Two writeToFile tasks for one target, under SpecWriters *)

\* the task is in flight between its open and its close: it holds the handle
HasOpen(s) == s.pc \in {"write", "lastwrite", "flush", "close"}

\* the step is the open of task w taking effect (the temp file is created or
\* emptied) or its move taking effect
OpensOrMoves(w) ==
  \/ wr[w].pc = "open" /\ wr'[w].pc \notin {"open", "settled"}
  \/ wr[w].pc = "move" /\ wr'[w].pc = "settled" /\ wr'[w].result = NoError

\* the step makes the file at a task's target the whole of what that task
\* wrote: the temp file as it stands, holding the bytes the task wrote and no
\* others, which are the task's lines in order
ReplacedByOutputOf(w) ==
  LET s == wr[w]
      tmp == TempOf(s.path)
      out == Encode(LinesText(s.input))
      left == Unwritten(s.input, <<>>)
  IN  /\ s.pc = "move"
      /\ wr'[w].pc = "settled" /\ wr'[w].result = NoError
      /\ fs'[s.path] = fs[tmp]
      /\ Len(fs[tmp].data) = s.pos
      /\ IsPrefix(fs[tmp].data, out)
      /\ (left = <<>> \/ StrLen(Concat(left)) > 0) => fs[tmp].data = out

\* every step keeps the temp file to one task and replaces the target whole,
\* and the primitive each task waits for is able to resolve
ExclusiveAndAtomic ==
  /\ \A w \in Writers : \A o \in Writers \ {w} :
       HasOpen(wr[o]) => ~OpensOrMoves(w)
  /\ fs'[TargetPath] # fs[TargetPath] =>
       \E w \in Writers : wr[w].path = TargetPath /\ ReplacedByOutputOf(w)
  /\ \A w \in Writers :
       wr[w].pc \in {"open", "write", "lastwrite", "flush", "close", "move"} =>
         ENABLED (WriteSteps(w) /\ wr'[w].result = NoError /\ wr'[w].pc # "settled")
           \/ ENABLED (MoveSettled(w) /\ wr'[w].result = NoError)
  /\ \A w \in Writers :
       (wr'[w].pc = "done" /\ wr'[w].result = NoError) =>
         (wr'[w].cb = <<NoError>> /\ FullRun(wr'[w].calls, wr'[w].hasFlush))

\* C17: when two writeToFile operations on the same target path interleave in
\* any order, no step of one opens, truncates or moves the temp file while the
\* other has it open, whenever the target's content changes it becomes the
\* complete output of exactly one of the two, and both complete with null when
\* no primitive fails on its own.
C17_InterleavedWritesStayExclusive == [][ExclusiveAndAtomic]_vars

\* each writeToFile was called while no other was in flight
Serialized == \A w \in Writers : wr[w].pc # "idle" => wr[w].alone

\* C17, amended: the same, for two writeToFile operations on the same target
\* path of which each is called only when the other is not in flight.
C17_SerializedWritesStayExclusive == [][Serialized' => ExclusiveAndAtomic]_vars

\* C17: two writes of different inputs, one after the other, both called back
\* with null; the target holds the output of the second
C17_Witness ==
  /\ Serialized
  /\ \A w \in Writers : wr[w].pc = "done" /\ wr[w].cb = <<NoError>>
  /\ wr[1].input = << <<"a">> >>
  /\ wr[2].input = << <<"X", "X">>, <<"E">> >>
  /\ fs[TargetPath].data = Encode(LinesText(wr[2].input))
  /\ ~fs[TempOf(TargetPath)].exists

=============================================================================
